---- MODULE Spec2Model ----
(***************************************************************************)
(* PulseShrine backend: the start/stop API, the stream-driven enrichment   *)
(* pipeline (ai_selection -> bedrock_enhancement | standard_enhancement -> *)
(* pure_ingest) and the AI budget service, as a state machine over the     *)
(* DynamoDB tables they share.                                             *)
(*                                                                         *)
(* Money is an integer number of ticks, 1 tick = 0.0001 cent.              *)
(***************************************************************************)
EXTENDS Integers, Sequences, FiniteSets, TLC

(* ------------------------------ bounds -------------------------------- *)
MaxPulses == 2
MaxDeliveries == 2
MaxFaults == 1
MaxDay == 2

(* ------------------------- program constants --------------------------- *)
CentScale == 10000
EXCEPTIONAL_THRESHOLD == 800
GOOD_THRESHOLD == 400
FirstEnhancementCredits == 5
LongSessionCredits == 3
DeepReflectionCredits == 2
BreakthroughCredits == 1

Users == {"u1", "u2"}
Execs == {1, 2}
PulseIds == 1..MaxPulses
Days == 1..MaxDay
Profiles == {"short", "rich"}
Models == {"us.amazon.nova-lite-v1:0", "anthropic.claude-3-opus-20240229-v1:0"}

BUDGET_TIERS ==
  [free      |-> [daily_base_cents |-> 5,  daily_bonus_credits |-> 0,  monthly_cap_cents |-> 30],
   premium   |-> [daily_base_cents |-> 18, daily_bonus_credits |-> 2,  monthly_cap_cents |-> 375],
   unlimited |-> [daily_base_cents |-> 75, daily_bonus_credits |-> 25, monthly_cap_cents |-> 1000]]

BEDROCK_COSTS ==
  [m \in Models |->
     IF m = "us.amazon.nova-lite-v1:0"
       THEN [input |-> 60, output |-> 240]
       ELSE [input |-> 15000, output |-> 75000]]

VARIABLES
  started,     \* table started_pulses, key user_id
  stopped,     \* table stopped_pulses, key pulse_id
  archived,    \* table ingested_pulses, key pulse_id
  usage,       \* table ai_usage_tracking, DAILY# items, key (user_id, date)
  ledger,      \* table ai_usage_tracking, EVENT# items (append-only)
  stats,       \* table users: stats.total_pulses / stats.total_ai_enhancements
  stream,      \* INSERT records emitted by the stopped_pulses stream
  deliveries,  \* how many times each stream record has been delivered
  ex,          \* pipeline executions (one Step Functions run per delivery)
  api,         \* outcome of the last API call
  stopCalls,   \* stop calls between their delete and their insert
  usedIds,     \* pulse ids handed out by uuid4 so far
  today,       \* UTC date
  config,      \* Parameter Store: enabled, bedrock_model_id, max_cost
  faults,      \* injected faults so far (crashes, storage errors)
  debits       \* per stream record: update_item calls that added its cost

vars == <<started, stopped, archived, usage, ledger, stats, stream, deliveries,
          ex, api, stopCalls, usedIds, today, config, faults, debits>>

(* ------------------------- DynamoDB primitives ------------------------- *)
\* get_item on a table whose partition key is attribute k
ItemsByUser(table, u) == {i \in table : i.user_id = u}
ItemsByPulse(table, p) == {i \in table : i.pulse_id = p}

\* put_item without condition: replaces the item with the same key
PutByUser(table, item) == (table \ ItemsByUser(table, item.user_id)) \cup {item}
\* (a put that stores nothing)
PutDropped(table, item) == table
PutByPulse(table, item) == (table \ ItemsByPulse(table, item.pulse_id)) \cup {item}

\* (a put without ConditionExpression)
CondAlwaysMet(table, item) == TRUE
\* ConditionExpression="attribute_not_exists(pulse_id)": evaluated against the
\* stored item that has the same primary key; every stored item has a pulse_id
CondNotExistsByUser(table, item) == ItemsByUser(table, item.user_id) = {}
\* (a condition that lets a put overwrite)
CondOverwrites(table, item) == TRUE
CondNotExistsByPulse(table, item) == ItemsByPulse(table, item.pulse_id) = {}

(* ------------------------------ pulses --------------------------------- *)
\* content of a session: S1 ("Quick fix" / 600 s) and S2 (2 h, rich text)
IntentLen(prof) == IF prof = "short" THEN 9 ELSE 180
ReflectionLen(prof) == IF prof = "short" THEN 17 ELSE 200
DurationSeconds(prof) == IF prof = "short" THEN 600 ELSE 7200

\* instants (start_time, stopped_at) are in milliseconds
MillisPerSecond == 1000
Seconds(n) == n * MillisPerSecond
\* int(timedelta.total_seconds()): whole seconds, truncated toward zero
TotalSecondsInt(ms) ==
  IF ms >= 0 THEN ms \div MillisPerSecond ELSE -((-ms) \div MillisPerSecond)
HasBreakthroughWord(prof) == prof = "rich"

\* times are whole seconds counted from the moment the session was started;
\* profile stands for the intent and the planned duration_seconds
StartedItem(u, p, prof) ==
  [user_id |-> u, pulse_id |-> p, profile |-> prof, start_time |-> 0]

\* (a StopPulse built without the stored start_time and the sent reflection)
StoppedAfresh(u, it, refl, at) ==
  [user_id |-> u, pulse_id |-> it.pulse_id, profile |-> it.profile,
   start_time |-> at, reflection |-> it.profile, stopped_at |-> at]

\* stop_pulse builds the StopPulse from the request's user_id, the deleted
\* item's pulse_id, start_time, intent and duration_seconds, and the request's
\* reflection and stopped_at
StoppedItem(u, it, refl, at) ==
  [user_id |-> u, pulse_id |-> it.pulse_id, profile |-> it.profile,
   start_time |-> it.start_time, reflection |-> refl, stopped_at |-> at]

\* StopPulse.actual_duration_seconds
ActualDurationSeconds(it) == TotalSecondsInt(it.stopped_at - it.start_time)

\* a record of the stopped table's stream: the event name and the item image
StreamRecord(name, image) == image @@ [event_name |-> name]

\* a session stopped when its planned time was over
OnTime(u, p, prof) ==
  StoppedItem(u, StartedItem(u, p, prof), prof, Seconds(DurationSeconds(prof)))

(* --------------------------- API: start-pulse -------------------------- *)
\* uuid.uuid4(): an id no pulse has had before
Uuid4 == CHOOSE p \in PulseIds \ usedIds : \A q \in PulseIds \ usedIds : p <= q

\* start_pulse: who is the authenticated caller, u the user_id of the body;
\* bodyPid = 0 is a request without pulse_id
StartPulse(who, u, prof, bodyPid) ==
  /\ bodyPid = 0 => PulseIds \ usedIds # {}
  /\ LET pid  == IF bodyPid # 0 THEN bodyPid ELSE Uuid4
         item == StartedItem(u, pid, prof)
     IN /\ IF CondNotExistsByUser(started, item)
             THEN /\ Cardinality(started) + Cardinality(stopCalls) + Len(stream) < MaxPulses
                  /\ started' = PutByUser(started, item)
                  /\ usedIds' = usedIds \cup {pid}
                  /\ api' = [op |-> "start", caller |-> who, user |-> u, status |-> "ok"]
             ELSE /\ UNCHANGED <<started, usedIds>>
                  /\ api' = [op |-> "start", caller |-> who, user |-> u,
                             status |-> "AlreadyStarted"]
  /\ UNCHANGED <<stopped, archived, usage, ledger, stats, stream, deliveries,
                 ex, stopCalls, today, config, faults, debits>>

(* --------------------------- API: stop-pulse --------------------------- *)
\* _delete_start_pulse: delete_item(ReturnValues="ALL_OLD"); stop_pulse then
\* reads response.get("Attributes") although the helper returned None when
\* nothing was deleted
StopDelete(who, u, refl, at) ==
  /\ IF ItemsByUser(started, u) = {}
       THEN /\ api' = [op |-> "stop", caller |-> who, user |-> u, status |-> "Error"]
            /\ UNCHANGED <<started, stopCalls>>
       ELSE /\ started' = started \ ItemsByUser(started, u)
            /\ stopCalls' = stopCalls \cup
                 {[caller |-> who, deleted |-> it, pulse |-> StoppedItem(u, it, refl, at)] :
                    it \in ItemsByUser(started, u)}
            /\ api' = [op |-> "stop", caller |-> who, user |-> u, status |-> "pending"]
  /\ UNCHANGED <<stopped, archived, usage, ledger, stats, stream, deliveries,
                 ex, usedIds, today, config, faults, debits>>

\* (a handler that answers with success whatever stop_pulse returned)
StopSwallowed(sent) == "ok"
\* stop_pulse_handler: BadRequestError when stop_pulse returned None
StopResponse(sent) == IF sent THEN "ok" ELSE "StopFailed"

\* _send_pulse_to_ingestion: conditional put into stopped_pulses; the insert
\* emits one INSERT stream record carrying the new image
StopInsert(c, fail) ==
  /\ c \in stopCalls
  /\ fail => faults < MaxFaults
  /\ stopCalls' = stopCalls \ {c}
  /\ IF ~fail /\ CondNotExistsByPulse(stopped, c.pulse)
       THEN /\ stopped' = PutByPulse(stopped, c.pulse)
            /\ stream' = Append(stream, StreamRecord("INSERT", c.pulse))
            /\ deliveries' = Append(deliveries, 0)
            /\ debits' = Append(debits, 0)
            /\ api' = [op |-> "stop", caller |-> c.caller, user |-> c.pulse.user_id,
                       status |-> StopResponse(TRUE)]
            /\ faults' = faults
       ELSE /\ UNCHANGED <<stopped, stream, deliveries, debits>>
            /\ api' = [op |-> "stop", caller |-> c.caller, user |-> c.pulse.user_id,
                       status |-> StopResponse(FALSE)]
            /\ faults' = IF fail THEN faults + 1 ELSE faults
  /\ UNCHANGED <<started, archived, usage, ledger, stats, ex, usedIds, today, config>>

(* ------------------------ API: get-ingested-pulses --------------------- *)
\* get_ingested_pulses_handler: lists the archive of the user_id given in the
\* query string
ListPulses(who, u) ==
  /\ api' = [op |-> "list", caller |-> who, user |-> u, status |-> "ok"]
  /\ UNCHANGED <<started, stopped, archived, usage, ledger, stats, stream, deliveries,
                 ex, stopCalls, usedIds, today, config, faults, debits>>

\* get_ingested_pulses: the query on UserIdStoppedAtIndex, ScanIndexForward;
\* every order of the user's items that ascends in inverted_timestamp is a
\* result the index may return, cut at nb_items
DEFAULT_NB_ITEMS == 20
GetIngestedPulses(u) ==
  LET items == ItemsByUser(archived, u)
      n == Cardinality(items)
      m == IF n <= DEFAULT_NB_ITEMS THEN n ELSE DEFAULT_NB_ITEMS
  IN {[i \in 1..m |-> l[i]] :
        l \in {q \in [1..n -> items] :
                 \A i \in 1..n, j \in 1..n :
                   i < j => /\ q[i] # q[j]
                            /\ q[i].inverted_timestamp <= q[j].inverted_timestamp}}

(* ------------------------ usage records (UsageDay) --------------------- *)
DaysPerMonth == 2
Month(d) == (d + DaysPerMonth - 1) \div DaysPerMonth

\* user_service.get_user_plan: the plan stored in the user's profile
UserPlan(u) == IF u = "u1" THEN "free" ELSE "premium"

UsageFor(u, d) == {i \in usage : i.user_id = u /\ i.date = d}
PutUsage(table, item) ==
  {i \in table : ~(i.user_id = item.user_id /\ i.date = item.date)} \cup {item}

\* get_or_create_daily_usage, the record written when none exists
NewUsageRecord(u, d) ==
  [user_id |-> u, date |-> d,
   daily_cost_cents |-> 0,
   daily_ai_credits |-> BUDGET_TIERS[UserPlan(u)].daily_bonus_credits,
   daily_pulses_enhanced |-> 0,
   monthly_cost_cents |-> 0,
   user_tier |-> UserPlan(u),
   achievements |-> {},
   total_ai_enhancements |-> 0,
   month |-> Month(d)]

\* int(item.get(...)): Decimal -> int drops the fraction of a cent
IntOf(ticks) == (ticks \div CentScale) * CentScale

\* get_or_create_daily_usage, the dict returned for a stored item
ReadUsage(item) ==
  [item EXCEPT !.daily_cost_cents = IntOf(item.daily_cost_cents),
               !.monthly_cost_cents = IntOf(item.monthly_cost_cents)]

NoUsage == NewUsageRecord("u1", 0)

(* ------------------------------ scoring -------------------------------- *)
\* scores are in thousandths
LengthScore(n) ==
  IF n >= 350 THEN 1000
  ELSE IF n >= 250 THEN 800 + (n - 250) * 2
  ELSE IF n >= 150 THEN 500 + (n - 150) * 3
  ELSE IF n >= 50 THEN 200 + (n - 50) * 3
  ELSE n * 4

DurationScore(sec) ==
  IF sec >= 5400 THEN 1000
  ELSE IF sec >= 3600 THEN 800 + ((sec - 3600) * 200) \div 1800
  ELSE IF sec >= 1800 THEN 600 + ((sec - 1800) * 200) \div 1800
  ELSE IF sec >= 1200 THEN 400 + ((sec - 1200) * 200) \div 600
  ELSE IF sec >= 600 THEN 200 + ((sec - 600) * 200) \div 600
  ELSE (sec * 200) \div 600

DepthScore(prof) == IF prof = "rich" THEN 500 ELSE 0

\* get_daily_pulse_count and _calculate_frequency_bonus
DailyPulseCount(enhanced) == IF enhanced * 8 > 1 THEN enhanced * 8 ELSE 1
FrequencyBonus(count) ==
  IF count >= 5 THEN 1000
  ELSE IF count >= 3 THEN 700 + (count - 3) * 150
  ELSE IF count >= 2 THEN 500 + (count - 2) * 200
  ELSE IF count >= 1 THEN 300
  ELSE 500

Min(a, b) == IF a <= b THEN a ELSE b

\* _calculate_actual_duration: elapsed seconds, capped at the planned duration
CalculateActualDuration(image) ==
  Min(TotalSecondsInt(image.stopped_at - image.start_time), DurationSeconds(image.profile))

CalculateWorthiness(image, enhanced) ==
  Min(1000,
      (LengthScore(IntentLen(image.profile) + ReflectionLen(image.reflection)) * 4
       + DurationScore(CalculateActualDuration(image)) * 3
       + DepthScore(image.profile) * 2
       + FrequencyBonus(DailyPulseCount(enhanced)) * 1) \div 10)

(* ------------------------------- costs --------------------------------- *)
\* estimate_enhancement_cost (ai_selection): Nova Lite rates plus 0.01 cent
EstimateEnhancementCost(prof, maxCostCents) ==
  LET chars == Min(IntentLen(prof) + ReflectionLen(prof), 400)
      inTok == IF chars \div 4 > 1 THEN chars \div 4 ELSE 1
      outTok == Min(50 + inTok * 2, 300)
      ticks == (inTok * 6 + outTok * 24 + 50) \div 100 + 100
  IN Min(ticks, maxCostCents * CentScale)

\* estimate_bedrock_cost(text_length, model) * 4 * 100 (bedrock_enhancement)
EstimateBedrockCost(prof, model) ==
  LET len == IntentLen(prof) + ReflectionLen(prof)
      rate == 6
  IN (len * 8 * rate * 4) \div 1000

\* (a limit that nothing exceeds)
NeverExceeds(prof, model, maxCostCents) == FALSE
\* the handler's check of the estimate against config["max_cost_cents"]
CostLimitExceeded(prof, model, maxCostCents) ==
  EstimateBedrockCost(prof, model) > maxCostCents * CentScale

\* AICostCalculator.calculate_actual_cost
CalculateActualCost(model, inTok, outTok) ==
  (inTok * BEDROCK_COSTS[model].input + outTok * BEDROCK_COSTS[model].output + 500) \div 1000

\* actual_output_tokens = len(title + badge + insights) // 4: a full answer of
\* the model, or the short per-field fallback texts
ResponseTokens(outcome) == IF outcome = "ok" THEN 300 ELSE 20

(* ------------------------- pipeline executions ------------------------- *)
IdleExec ==
  [pc |-> "idle", rec |-> 0, n |-> 0, day |-> 0, score |-> 0, usage |-> NoUsage,
   aiWorthy |-> FALSE, reason |-> "", llm |-> "none", tracked |-> FALSE,
   cost |-> 0, enhanced |-> FALSE, title |-> "", rewards |-> 0, put |-> "",
   result |-> ""]

\* an execution that has returned: only its identity and outcome remain
Returned(e, put, result) ==
  [IdleExec EXCEPT !.rec = ex[e].rec, !.n = ex[e].n, !.put = put, !.result = result]

Pulse(e) == stream[ex[e].rec]
\* extract_pulse_data_from_record: the new image of an INSERT record, else {}
HasPulseData(e) == Pulse(e).event_name = "INSERT"
EventId(e) == <<ex[e].rec, ex[e].n>>

Event(type, e, cost) ==
  [event_type |-> type, user_id |-> Pulse(e).user_id, pulse_id |-> Pulse(e).pulse_id,
   event_id |-> EventId(e), cost |-> cost, date |-> today]

PipeUnchanged == UNCHANGED <<started, api, stopCalls, usedIds, today, config, stream>>

\* the state machine's routing between the Lambdas: AI-worthy pulses go to
\* bedrock_enhancement, the others to standard_enhancement; a bedrock result
\* with enhanced = false is demoted to standard_enhancement; enhanced pulses
\* go to pure_ingest
AfterSelection(aiWorthy) == IF aiWorthy THEN "bedrock" ELSE "standard"
AfterBedrock(enhanced) == IF enhanced THEN "ingest_put" ELSE "standard"
AfterStandard == "ingest_put"

\* the stream hands a record to a new execution (at-least-once delivery)
Deliver(e, r) ==
  /\ ex[e].pc = "idle"
  /\ \A f \in Execs : ex[f].pc = "idle" => e <= f
  /\ r \in 1..Len(stream)
  /\ deliveries[r] < MaxDeliveries
  /\ deliveries' = [deliveries EXCEPT ![r] = @ + 1]
  /\ ex' = [ex EXCEPT ![e] = [IdleExec EXCEPT !.pc = "sel_get", !.rec = r,
                                               !.n = deliveries[r] + 1]]
  /\ PipeUnchanged
  /\ UNCHANGED <<stopped, archived, usage, ledger, stats, faults, debits>>

(* ai_selection: should_enhance_with_ai *)
\* first get_or_create_daily_usage of the handler (frequency bonus): get_item
SelGet(e) ==
  /\ ex[e].pc = "sel_get"
  /\ IF ~HasPulseData(e)
       THEN ex' = [ex EXCEPT ![e].pc = AfterSelection(FALSE),
                           ![e].reason = "No pulse data found"]
       ELSE IF ~config.enabled
       THEN ex' = [ex EXCEPT ![e].pc = AfterSelection(FALSE),
                           ![e].reason = "AI enhancement disabled"]
       ELSE IF UsageFor(Pulse(e).user_id, today) = {}
         THEN ex' = [ex EXCEPT ![e].pc = "sel_create", ![e].day = today]
         ELSE LET item == CHOOSE i \in UsageFor(Pulse(e).user_id, today) : TRUE
              IN ex' = [ex EXCEPT ![e].pc = "sel_decide", ![e].day = today,
                          ![e].score = CalculateWorthiness(Pulse(e),
                                                           item.daily_pulses_enhanced)]
  /\ PipeUnchanged
  /\ UNCHANGED <<stopped, archived, usage, ledger, stats, deliveries, faults, debits>>

\* ... and its put_item when the get found nothing
SelCreate(e) ==
  /\ ex[e].pc = "sel_create"
  /\ usage' = PutUsage(usage, NewUsageRecord(Pulse(e).user_id, ex[e].day))
  /\ ex' = [ex EXCEPT ![e].pc = "sel_decide",
                      ![e].score = CalculateWorthiness(Pulse(e), 0)]
  /\ PipeUnchanged
  /\ UNCHANGED <<stopped, archived, ledger, stats, deliveries, faults, debits>>

\* get_or_create_daily_usage as one step (used where the record was read before)
UsageNow(u) ==
  IF UsageFor(u, today) = {} THEN NewUsageRecord(u, today)
  ELSE ReadUsage(CHOOSE i \in UsageFor(u, today) : TRUE)
\* (a load that always writes a new record)
UsageTableReset(u) == PutUsage(usage, NewUsageRecord(u, today))
UsageTableNow(u) ==
  IF UsageFor(u, today) = {} THEN PutUsage(usage, NewUsageRecord(u, today)) ELSE usage

\* can_afford_enhancement
CanAfford(u, est) ==
  LET tier == BUDGET_TIERS[u.user_tier]
  IN /\ u.monthly_cost_cents < tier.monthly_cap_cents * CentScale
     /\ u.monthly_cost_cents + est <= tier.monthly_cap_cents * CentScale
     /\ u.daily_cost_cents + est <= (tier.daily_base_cents + u.daily_ai_credits) * CentScale

\* _check_rewards_and_achievements: the credits of the triggered rewards
RewardCredits(u, prof) ==
  (IF u.total_ai_enhancements = 0 THEN FirstEnhancementCredits ELSE 0)
  + (IF u.total_ai_enhancements + 1 = 10 THEN 5
     ELSE IF u.total_ai_enhancements + 1 = 50 THEN 15 ELSE 0)
  + (IF DurationSeconds(prof) >= 7200 THEN LongSessionCredits ELSE 0)
  + (IF ReflectionLen(prof) >= 200 THEN DeepReflectionCredits ELSE 0)
  + (IF HasBreakthroughWord(prof) THEN BreakthroughCredits ELSE 0)
RewardAchievements(u) ==
  (IF u.total_ai_enhancements = 0 THEN {"ai_apprentice"} ELSE {})
  \cup (IF u.total_ai_enhancements + 1 = 10 THEN {"ai_enthusiast"}
        ELSE IF u.total_ai_enhancements + 1 = 50 THEN {"ai_master"} ELSE {})

\* (a chance that falls as the score rises)
FallingProbability(score) ==
  Min(((EXCEPTIONAL_THRESHOLD - score) * 1500) \div (EXCEPTIONAL_THRESHOLD - GOOD_THRESHOLD), 1000)
\* the chance, in thousandths, that a score of the good band is accepted
AcceptProbability(score) ==
  Min(((score - GOOD_THRESHOLD) * 1500) \div (EXCEPTIONAL_THRESHOLD - GOOD_THRESHOLD), 1000)

\* (a decision without the exceptional branch)
DecideInBandOnly(score, draw) ==
  score >= GOOD_THRESHOLD /\ score < EXCEPTIONAL_THRESHOLD /\ draw < AcceptProbability(score)
\* value-first decision; draw is random.random() in thousandths
Decide(score, draw) ==
  IF score >= EXCEPTIONAL_THRESHOLD THEN TRUE
  ELSE IF score >= GOOD_THRESHOLD THEN draw < AcceptProbability(score)
  ELSE FALSE

\* budget check, value-first decision, selection event, reward preview
SelDecide(e, draw) ==
  /\ ex[e].pc = "sel_decide"
  /\ LET u     == UsageNow(Pulse(e).user_id)
         est   == EstimateEnhancementCost(Pulse(e).profile, config.max_cost_cents)
         score == ex[e].score
     IN /\ usage' = UsageTableNow(Pulse(e).user_id)
        /\ IF ~CanAfford(u, est)
             THEN /\ draw = 0
                  /\ ex' = [ex EXCEPT ![e].pc = AfterSelection(FALSE), ![e].usage = u,
                                      ![e].reason = "budget"]
                  /\ ledger' = ledger
             ELSE LET worthy == Decide(score, draw)
                      why == IF score >= EXCEPTIONAL_THRESHOLD THEN "exceptional"
                             ELSE IF score >= GOOD_THRESHOLD THEN "good" ELSE "low"
                  IN /\ (score >= EXCEPTIONAL_THRESHOLD \/ score < GOOD_THRESHOLD) => draw = 0
                     /\ ex' = [ex EXCEPT ![e].pc = AfterSelection(worthy),
                                         ![e].usage = u,
                                         ![e].aiWorthy = worthy,
                                         ![e].reason = why,
                                         ![e].rewards = IF worthy
                                            THEN RewardCredits(u, Pulse(e).profile) ELSE 0]
                     /\ ledger' = ledger \cup
                          {Event("selection_evaluated", e, IF worthy THEN est ELSE 0)}
  /\ PipeUnchanged
  /\ UNCHANGED <<stopped, archived, stats, deliveries, faults, debits>>

(* bedrock_enhancement: handler *)
\* configuration and cost-limit checks, then start_enhancement_tracking
BedrockStart(e, trackFail) ==
  /\ ex[e].pc = "bedrock"
  /\ trackFail => faults < MaxFaults
  /\ IF ~config.enabled
       THEN /\ ex' = [ex EXCEPT ![e].pc = AfterBedrock(FALSE), ![e].llm = "disabled"]
            /\ ~trackFail
            /\ UNCHANGED <<ledger, faults>>
       ELSE IF CostLimitExceeded(Pulse(e).profile, config.bedrock_model_id,
                                 config.max_cost_cents)
         THEN /\ ex' = [ex EXCEPT ![e].pc = AfterBedrock(FALSE), ![e].llm = "refused"]
              /\ ~trackFail
              /\ UNCHANGED <<ledger, faults>>
         ELSE /\ ex' = [ex EXCEPT ![e].pc = "llm", ![e].tracked = ~trackFail]
              /\ ledger' = IF trackFail THEN ledger
                           ELSE ledger \cup {Event("enhancement_request", e, 0)}
              /\ faults' = IF trackFail THEN faults + 1 ELSE faults
  /\ PipeUnchanged
  /\ UNCHANGED <<stopped, archived, usage, stats, deliveries, debits>>

\* the three generation calls and complete/fail_enhancement_tracking.
\* outcome "ok": the model answered; "fallback": invoke_model failed inside
\* call_bedrock_* (swallowed, per-field fallback text); "raised": an exception
\* left the generators
BedrockLLM(e, outcome, trackFail) ==
  /\ ex[e].pc = "llm"
  /\ outcome \in {"ok", "fallback", "raised"}
  /\ trackFail => (faults < MaxFaults /\ ex[e].tracked)
  /\ faults' = IF trackFail THEN faults + 1 ELSE faults
  /\ LET inTok  == (IntentLen(Pulse(e).profile) + ReflectionLen(Pulse(e).profile)) \div 4
         actual == CalculateActualCost(config.bedrock_model_id, inTok, ResponseTokens(outcome))
         est    == EstimateBedrockCost(Pulse(e).profile, config.bedrock_model_id)
     IN IF outcome = "raised"
          THEN /\ ex' = [ex EXCEPT ![e].pc = AfterBedrock(FALSE), ![e].llm = "raised"]
               /\ ledger' = IF ex[e].tracked /\ ~trackFail
                              THEN ledger \cup {Event("enhancement_failed", e, 0)}
                              ELSE ledger
          ELSE /\ ex' = [ex EXCEPT ![e].pc = "rec_get", ![e].llm = outcome,
                                   ![e].cost = IF ex[e].tracked /\ ~trackFail
                                                 THEN actual ELSE est]
               /\ ledger' = IF ex[e].tracked /\ ~trackFail
                              THEN ledger \cup {Event("enhancement_completed", e, actual)}
                              ELSE ledger
  /\ PipeUnchanged
  /\ UNCHANGED <<stopped, archived, usage, stats, deliveries, debits>>

(* ai_budget_service: record_ai_enhancement *)
\* get_or_create_daily_usage: get_item
RecGet(e) ==
  /\ ex[e].pc = "rec_get"
  /\ IF UsageFor(Pulse(e).user_id, today) = {}
       THEN ex' = [ex EXCEPT ![e].pc = "rec_create", ![e].day = today]
       ELSE ex' = [ex EXCEPT ![e].pc = "rec_update", ![e].day = today,
                     ![e].usage = ReadUsage(CHOOSE i \in UsageFor(Pulse(e).user_id, today) : TRUE)]
  /\ PipeUnchanged
  /\ UNCHANGED <<stopped, archived, usage, ledger, stats, deliveries, faults, debits>>

\* get_or_create_daily_usage: put_item of a fresh record
RecCreate(e) ==
  /\ ex[e].pc = "rec_create"
  /\ usage' = PutUsage(usage, NewUsageRecord(Pulse(e).user_id, ex[e].day))
  /\ ex' = [ex EXCEPT ![e].pc = "rec_update",
                      ![e].usage = NewUsageRecord(Pulse(e).user_id, ex[e].day)]
  /\ PipeUnchanged
  /\ UNCHANGED <<stopped, archived, ledger, stats, deliveries, faults, debits>>

\* (an update that leaves the credits as they were)
UpdatedWithoutCredits(u, cost, prof, month) ==
  [u EXCEPT !.daily_cost_cents = u.daily_cost_cents + cost,
            !.monthly_cost_cents = u.monthly_cost_cents + cost,
            !.daily_pulses_enhanced = u.daily_pulses_enhanced + 1,
            !.total_ai_enhancements = u.total_ai_enhancements + 1,
            !.month = month]
\* the values record_ai_enhancement computes from the usage it read
UpdatedUsage(u, cost, prof, month) ==
  [u EXCEPT !.daily_cost_cents = u.daily_cost_cents + cost,
            !.monthly_cost_cents = u.monthly_cost_cents + cost,
            !.daily_pulses_enhanced = u.daily_pulses_enhanced + 1,
            !.total_ai_enhancements = u.total_ai_enhancements + 1,
            !.daily_ai_credits = u.daily_ai_credits + RewardCredits(u, prof),
            !.achievements = u.achievements \cup RewardAchievements(u),
            !.month = month]

\* update_item SET ...: writes the computed values over the stored item;
\* achievements is part of the expression only when a reward was triggered
ApplyUpdate(table, u, d, new, rewarded) ==
  LET old == IF \E i \in table : i.user_id = u /\ i.date = d
               THEN CHOOSE i \in table : i.user_id = u /\ i.date = d
               ELSE new
  IN PutUsage(table,
       [old EXCEPT !.daily_cost_cents = new.daily_cost_cents,
                   !.monthly_cost_cents = new.monthly_cost_cents,
                   !.daily_pulses_enhanced = new.daily_pulses_enhanced,
                   !.total_ai_enhancements = new.total_ai_enhancements,
                   !.daily_ai_credits = new.daily_ai_credits,
                   !.achievements = IF rewarded THEN new.achievements
                                                ELSE old.achievements,
                   !.month = new.month])

RecUpdate(e, fail) ==
  /\ ex[e].pc = "rec_update"
  /\ fail => faults < MaxFaults
  /\ LET user == Pulse(e).user_id
         new  == UpdatedUsage(ex[e].usage, ex[e].cost, Pulse(e).profile, Month(ex[e].day))
         written == ApplyUpdate(usage, user, ex[e].day, new,
                                RewardCredits(ex[e].usage, Pulse(e).profile) > 0)
     IN IF fail
          THEN /\ UNCHANGED <<usage, debits>>
               /\ faults' = faults + 1
               /\ ex' = [ex EXCEPT ![e].pc = AfterBedrock(TRUE), ![e].enhanced = TRUE,
                                   ![e].title = ex[e].llm, ![e].rewards = 0]
          ELSE /\ usage' = IF \E i \in written : i.user_id = user /\ i.date = today
                             THEN written
                             ELSE PutUsage(written, NewUsageRecord(user, today))
               /\ debits' = [debits EXCEPT ![ex[e].rec] = @ + 1]
               /\ faults' = faults
               /\ ex' = [ex EXCEPT ![e].pc = AfterBedrock(TRUE), ![e].enhanced = TRUE,
                                   ![e].title = ex[e].llm,
                                   ![e].rewards = RewardCredits(ex[e].usage, Pulse(e).profile)]
  /\ PipeUnchanged
  /\ UNCHANGED <<stopped, archived, ledger, stats, deliveries>>

(* standard_enhancement: handler *)
Standard(e) ==
  /\ ex[e].pc = "standard"
  /\ ex' = [ex EXCEPT ![e].pc = AfterStandard, ![e].enhanced = FALSE,
                      ![e].title = IF HasPulseData(e) THEN "rule" ELSE @]
  /\ PipeUnchanged
  /\ UNCHANGED <<stopped, archived, usage, ledger, stats, deliveries, faults, debits>>

(* pure_ingest: handler *)
\* the ArchivedPulse built from the event: StopPulse fields plus generated
\* content; ai_selection_info comes from event["selectionInfo"], which
\* ai_selection_handler fills without a could_be_enhanced key
\* (a conversion that leaves stopped_at to its default, the current time)
ConvertWithDefault(image) ==
  [user_id |-> image.user_id, pulse_id |-> image.pulse_id, profile |-> image.profile,
   start_time |-> image.start_time, reflection |-> image.reflection,
   stopped_at |-> today]
\* convert_ddb_to_stop_pulse: the StopPulse made of the fields of a new image
ConvertDdbToStopPulse(image) ==
  [user_id |-> image.user_id, pulse_id |-> image.pulse_id, profile |-> image.profile,
   start_time |-> image.start_time, reflection |-> image.reflection,
   stopped_at |-> image.stopped_at]

\* datetime(9999, 12, 31, 23, 59, 59), in seconds from the model's origin
EndOfTime == 1000000
\* ArchivedPulse.inverted_timestamp
InvertedTimestamp(stopped_at) == TotalSecondsInt(Seconds(EndOfTime) - stopped_at)

ArchivedItem(e) ==
  [user_id |-> ConvertDdbToStopPulse(Pulse(e)).user_id,
   pulse_id |-> ConvertDdbToStopPulse(Pulse(e)).pulse_id,
   profile |-> ConvertDdbToStopPulse(Pulse(e)).profile,
   start_time |-> ConvertDdbToStopPulse(Pulse(e)).start_time,
   reflection |-> ConvertDdbToStopPulse(Pulse(e)).reflection,
   stopped_at |-> ConvertDdbToStopPulse(Pulse(e)).stopped_at,
   inverted_timestamp |-> InvertedTimestamp(ConvertDdbToStopPulse(Pulse(e)).stopped_at),
   archived_at |-> today,
   gen_title |-> ex[e].title,
   ai_enhanced |-> ex[e].enhanced,
   ai_cost_cents |-> IF ex[e].enhanced THEN ex[e].cost ELSE 0,
   decision_reason |-> ex[e].reason,
   could_be_enhanced |-> FALSE]

\* (a handler that goes on to the delete whatever the insert returned)
DeleteRegardless(stored) == "ingest_del"
\* the handler's "if success:" after store_ingested_pulse: the delete from
\* the stopped table follows a successful insert only
AfterStore(stored) == IF stored THEN "ingest_del" ELSE "idle"

\* store_ingested_pulse: conditional put, every error turned into False
IngestPut(e, fail) ==
  /\ ex[e].pc = "ingest_put"
  /\ fail => faults < MaxFaults
  /\ IF ~HasPulseData(e) \/ Pulse(e).pulse_id = 0
       THEN /\ ~fail
            /\ archived' = archived
            /\ ex' = [ex EXCEPT ![e] = Returned(e, ex[e].put, "failed")]
            /\ faults' = faults
       ELSE IF ~fail /\ CondNotExistsByPulse(archived, ArchivedItem(e))
       THEN /\ archived' = PutByPulse(archived, ArchivedItem(e))
            /\ ex' = [ex EXCEPT ![e].pc = AfterStore(TRUE), ![e].put = "Inserted"]
            /\ faults' = faults
       ELSE /\ archived' = archived
            /\ ex' = [ex EXCEPT ![e] =
                        [Returned(e, IF fail THEN "Error" ELSE "Conflict", "failed")
                           EXCEPT !.pc = AfterStore(FALSE)]]
            /\ faults' = IF fail THEN faults + 1 ELSE faults
  /\ PipeUnchanged
  /\ UNCHANGED <<stopped, usage, ledger, stats, deliveries, debits>>

\* archive_stop_pulse: delete_item by pulse_id; its result is only logged
IngestDel(e, fail) ==
  /\ ex[e].pc = "ingest_del"
  /\ fail => faults < MaxFaults
  /\ stopped' = IF fail THEN stopped ELSE stopped \ ItemsByPulse(stopped, Pulse(e).pulse_id)
  /\ faults' = IF fail THEN faults + 1 ELSE faults
  /\ ex' = [ex EXCEPT ![e].pc = "ingest_stats"]
  /\ PipeUnchanged
  /\ UNCHANGED <<archived, usage, ledger, stats, deliveries, debits>>

\* (a response that reports a failed stats update)
IngestFailsWithStats(statsUpdated) == IF statsUpdated THEN "success" ELSE "failed"
\* the handler's response after the archive insert succeeded: the outcome of
\* update_user_stats is logged only
IngestResponse(statsUpdated) == "success"

\* user_service.update_user_stats, then the success response
IngestStats(e, fail) ==
  /\ ex[e].pc = "ingest_stats"
  /\ fail => faults < MaxFaults
  /\ stats' = IF fail THEN stats
              ELSE [stats EXCEPT ![Pulse(e).user_id] =
                      [total_pulses |-> @.total_pulses + 1,
                       total_ai_enhancements |-> @.total_ai_enhancements
                                                 + (IF ex[e].enhanced THEN 1 ELSE 0)]]
  /\ faults' = IF fail THEN faults + 1 ELSE faults
  /\ ex' = [ex EXCEPT ![e] = Returned(e, "Inserted", IngestResponse(~fail))]
  /\ PipeUnchanged
  /\ UNCHANGED <<stopped, archived, usage, ledger, deliveries, debits>>

\* a Lambda of the pipeline is killed (timeout / deadline expiry)
Crash(e) ==
  /\ ex[e].pc # "idle"
  /\ faults < MaxFaults
  /\ faults' = faults + 1
  /\ ex' = [ex EXCEPT ![e] = Returned(e, ex[e].put, "killed")]
  /\ PipeUnchanged
  /\ UNCHANGED <<stopped, archived, usage, ledger, stats, deliveries, debits>>

\* the UTC date changes
NextDay ==
  /\ today < MaxDay
  /\ today' = today + 1
  /\ UNCHANGED <<started, stopped, archived, usage, ledger, stats, stream, deliveries,
                 ex, api, stopCalls, usedIds, config, faults, debits>>

(* ----------------------------- specification --------------------------- *)
Init ==
  /\ started = {}
  /\ stopped = {}
  /\ archived = {}
  /\ usage = {}
  /\ ledger = {}
  /\ stats = [u \in Users |-> [total_pulses |-> 0, total_ai_enhancements |-> 0]]
  /\ stream = <<>>
  /\ deliveries = <<>>
  /\ debits = <<>>
  /\ ex = [e \in Execs |-> IdleExec]
  /\ api = [op |-> "none", caller |-> "u1", user |-> "u1", status |-> "none"]
  /\ stopCalls = {}
  /\ usedIds = {}
  /\ today = 1
  /\ config \in {[enabled |-> en, bedrock_model_id |-> m, max_cost_cents |-> 2] :
                   en \in BOOLEAN, m \in Models}
  /\ faults = 0

\* the state once one session has been started and stopped
InitPipe ==
  /\ \E u \in Users, prof \in Profiles :
       LET item == OnTime(u, 1, prof)
       IN /\ stopped = {item}
          /\ stream = <<StreamRecord("INSERT", item)>>
          /\ api = [op |-> "stop", caller |-> u, user |-> u, status |-> "ok"]
  /\ started = {}
  /\ archived = {}
  /\ usage = {}
  /\ ledger = {}
  /\ stats = [u \in Users |-> [total_pulses |-> 0, total_ai_enhancements |-> 0]]
  /\ deliveries = <<0>>
  /\ debits = <<0>>
  /\ ex = [e \in Execs |-> IdleExec]
  /\ stopCalls = {}
  /\ usedIds = {1}
  /\ today = 1
  /\ config \in {[enabled |-> en, bedrock_model_id |-> m, max_cost_cents |-> 2] :
                   en \in BOOLEAN, m \in Models}
  /\ faults = 0

Draws == {0, 500, 999}

NextApi ==
  \/ \E u \in Users, prof \in Profiles, b \in {0} \cup usedIds : StartPulse(u, u, prof, b)
  \/ \E u \in Users :
       \E prof \in {p \in Profiles : \A it \in ItemsByUser(started, u) : it.profile = p} :
         StopDelete(u, u, prof, Seconds(DurationSeconds(prof)))
  \/ \E c \in stopCalls, f \in BOOLEAN : StopInsert(c, f)

NextPipe ==
  \/ \E e \in Execs, r \in PulseIds : Deliver(e, r)
  \/ \E e \in Execs : SelGet(e)
  \/ \E e \in Execs : SelCreate(e)
  \/ \E e \in Execs, d \in Draws : SelDecide(e, d)
  \/ \E e \in Execs, f \in BOOLEAN : BedrockStart(e, f)
  \/ \E e \in Execs, o \in {"ok", "fallback", "raised"}, f \in BOOLEAN : BedrockLLM(e, o, f)
  \/ \E e \in Execs : RecGet(e)
  \/ \E e \in Execs, f \in BOOLEAN : RecUpdate(e, f)
  \/ \E e \in Execs : Standard(e)
  \/ \E e \in Execs, f \in BOOLEAN : IngestPut(e, f)
  \/ \E e \in Execs, f \in BOOLEAN : IngestDel(e, f)
  \/ \E e \in Execs, f \in BOOLEAN : IngestStats(e, f)
  \/ \E e \in Execs : Crash(e)

\* midnight, and the step only a date change makes possible: the budget
\* service finding no record for the day although selection ran
NextMidnight ==
  \/ NextDay
  \/ \E e \in Execs : RecCreate(e)

\* one step of one execution, whichever stage it is in
Step(e) ==
  \/ SelGet(e)
  \/ SelCreate(e)
  \/ \E d \in Draws : SelDecide(e, d)
  \/ BedrockStart(e, FALSE)
  \/ \E o \in {"ok", "fallback", "raised"} : BedrockLLM(e, o, FALSE)
  \/ RecGet(e)
  \/ RecCreate(e)
  \/ RecUpdate(e, FALSE)
  \/ Standard(e)
  \/ IngestPut(e, FALSE)
  \/ IngestDel(e, FALSE)
  \/ IngestStats(e, FALSE)

\* the API alone, from the empty tables
ApiSpec == Init /\ [][NextApi]_vars
\* the pipeline working on the stream of one stopped session, within one day
PipeSpec == InitPipe /\ [][NextPipe]_vars
\* the same across midnight
DaySpec == InitPipe /\ [][NextPipe \/ NextMidnight]_vars
\* executions keep running and the stream keeps delivering
FairPipeSpec ==
  /\ PipeSpec
  /\ \A e \in Execs : WF_vars(Step(e))
  /\ WF_vars(\E e \in Execs, r \in PulseIds : Deliver(e, r))

\* the usage record of day d after n enhancements of sessions of profile prof,
\* each costing cost: record_ai_enhancement applied n times to the new record
RECURSIVE Replay(_, _, _, _, _)
Replay(u, d, n, cost, prof) ==
  IF n = 0 THEN NewUsageRecord(u, d)
  ELSE LET before == Replay(u, d, n - 1, cost, prof)
           new    == UpdatedUsage(ReadUsage(before), cost, prof, Month(d))
       IN CHOOSE i \in ApplyUpdate({before}, u, d, new,
                                    RewardCredits(ReadUsage(before), prof) > 0) : TRUE

\* the cost of an enhancement of a rich session whose answers add up to 247
\* output tokens with Claude 3 Opus: 1.995 cents
EarlierCost ==
  CalculateActualCost("anthropic.claude-3-opus-20240229-v1:0",
                      (IntentLen("rich") + ReflectionLen("rich")) \div 4, 247)

\* a busy day of a free-plan user: none, 29 or 30 enhancements so far
EarlierEnhancements == {0, 29, 30}

\* the pipeline on one more stopped session of that user
InitBudget ==
  /\ LET item == OnTime("u1", 1, "rich")
     IN /\ stopped = {item}
        /\ stream = <<StreamRecord("INSERT", item)>>
        /\ api = [op |-> "stop", caller |-> "u1", user |-> "u1", status |-> "ok"]
  /\ \E n \in EarlierEnhancements :
       usage = IF n = 0 THEN {} ELSE {Replay("u1", 1, n, EarlierCost, "rich")}
  /\ started = {}
  /\ archived = {}
  /\ ledger = {}
  /\ stats = [u \in Users |-> [total_pulses |-> 0, total_ai_enhancements |-> 0]]
  /\ deliveries = <<0>>
  /\ debits = <<0>>
  /\ ex = [e \in Execs |-> IdleExec]
  /\ stopCalls = {}
  /\ usedIds = {1}
  /\ today = 1
  /\ config = [enabled |-> TRUE,
               bedrock_model_id |-> "anthropic.claude-3-opus-20240229-v1:0",
               max_cost_cents |-> 2]
  /\ faults = 0

BudgetSpec == InitBudget /\ [][NextPipe]_vars

\* stopped_at values a caller can send: before the start, within the planned
\* time of a short session, long after it
StoppedAts == {Seconds(-60), Seconds(300), Seconds(90000)}

\* the API as any authenticated caller can use it on the sessions of one user
Owner == "u1"

InitSession ==
  /\ Init
  /\ config = [enabled |-> TRUE, bedrock_model_id |-> "us.amazon.nova-lite-v1:0",
               max_cost_cents |-> 2]

NextSession ==
  \/ \E who \in Users, b \in {0} \cup usedIds : StartPulse(who, Owner, "short", b)
  \/ \E who \in Users, refl \in Profiles, at \in StoppedAts :
       StopDelete(who, Owner, refl, at)
  \/ \E c \in stopCalls, f \in BOOLEAN : StopInsert(c, f)
  \/ \E who \in Users : ListPulses(who, Owner)

SessionSpec == InitSession /\ [][NextSession]_vars

\* DynamoDB Streams: the REMOVE record of an item deleted from the stopped table
StreamRemove(r) ==
  /\ r \in 1..Len(stream)
  /\ stream[r].event_name = "INSERT"
  /\ stream[r].pulse_id # 0
  /\ ItemsByPulse(stopped, stream[r].pulse_id) = {}
  /\ \A q \in 1..Len(stream) :
       ~(stream[q].event_name = "REMOVE" /\ stream[q].pulse_id = stream[r].pulse_id)
  /\ stream' = Append(stream, [stream[r] EXCEPT !.event_name = "REMOVE"])
  /\ deliveries' = Append(deliveries, 0)
  /\ debits' = Append(debits, 0)
  /\ UNCHANGED <<started, stopped, archived, usage, ledger, stats, ex, api, stopCalls,
                 usedIds, today, config, faults>>

\* the pipeline on whatever record it is handed: the INSERT of a stopped
\* session, or an INSERT whose image has no pulse_id
InitRecords ==
  /\ \E p \in {0, 1} :
       LET item == OnTime("u1", p, "rich")
       IN /\ stopped = IF p = 0 THEN {} ELSE {item}
          /\ stream = <<StreamRecord("INSERT", item)>>
          /\ usedIds = IF p = 0 THEN {} ELSE {p}
  /\ api = [op |-> "stop", caller |-> "u1", user |-> "u1", status |-> "ok"]
  /\ started = {}
  /\ archived = {}
  /\ usage = {}
  /\ ledger = {}
  /\ stats = [u \in Users |-> [total_pulses |-> 0, total_ai_enhancements |-> 0]]
  /\ deliveries = <<0>>
  /\ debits = <<0>>
  /\ ex = [e \in Execs |-> IdleExec]
  /\ stopCalls = {}
  /\ today = 1
  /\ config = [enabled |-> TRUE, bedrock_model_id |-> "us.amazon.nova-lite-v1:0",
               max_cost_cents |-> 2]
  /\ faults = 0

NextRecords == NextPipe \/ \E r \in PulseIds : StreamRemove(r)

RecordSpec == InitRecords /\ [][NextRecords]_vars

\* worthiness scores of every band, in thousandths
Scores == {399, 400, 500, 600, 799, 800}

\* two deliveries of one session, both about to decide: the decision as a
\* function of the score, whatever content earned it
InitDecision ==
  /\ LET item == OnTime("u1", 1, "rich")
     IN /\ stopped = {item}
        /\ stream = <<StreamRecord("INSERT", item)>>
        /\ api = [op |-> "stop", caller |-> "u1", user |-> "u1", status |-> "ok"]
  /\ \E sc \in [Execs -> Scores] :
       ex = [e \in Execs |-> [IdleExec EXCEPT !.pc = "sel_decide", !.rec = 1, !.n = e,
                                              !.day = 1, !.score = sc[e]]]
  /\ usage = {NewUsageRecord("u1", 1)}
  /\ started = {}
  /\ archived = {}
  /\ ledger = {}
  /\ stats = [u \in Users |-> [total_pulses |-> 0, total_ai_enhancements |-> 0]]
  /\ deliveries = <<Cardinality(Execs)>>
  /\ debits = <<0>>
  /\ stopCalls = {}
  /\ usedIds = {1}
  /\ today = 1
  /\ config = [enabled |-> TRUE, bedrock_model_id |-> "us.amazon.nova-lite-v1:0",
               max_cost_cents |-> 2]
  /\ faults = 0

NextDecision ==
  \/ \E e \in Execs, d \in Draws : SelDecide(e, d)
  \/ \E e \in Execs, f \in BOOLEAN : BedrockStart(e, f)
  \/ \E e \in Execs, o \in {"ok", "fallback", "raised"}, f \in BOOLEAN : BedrockLLM(e, o, f)
  \/ \E e \in Execs : RecGet(e)
  \/ \E e \in Execs, f \in BOOLEAN : RecUpdate(e, f)
  \/ \E e \in Execs : Standard(e)
  \/ \E e \in Execs, f \in BOOLEAN : IngestPut(e, f)
  \/ \E e \in Execs, f \in BOOLEAN : IngestDel(e, f)
  \/ \E e \in Execs, f \in BOOLEAN : IngestStats(e, f)
  \/ \E e \in Execs : Crash(e)

DecisionSpec == InitDecision /\ [][NextDecision]_vars

\* the pipeline on stopped sessions whose stopped_at the caller chose: a day
\* before the start, within the plan, at the plan's end, a day after the start
WorthinessStops == {Seconds(-90000), Seconds(300), Seconds(7200), Seconds(90000)}

InitWorthiness ==
  /\ \E prof \in Profiles, at \in WorthinessStops :
       LET item == StoppedItem("u1", StartedItem("u1", 1, prof), prof, at)
       IN /\ stopped = {item}
          /\ stream = <<StreamRecord("INSERT", item)>>
          /\ api = [op |-> "stop", caller |-> "u1", user |-> "u1", status |-> "ok"]
  /\ started = {}
  /\ archived = {}
  /\ usage = {}
  /\ ledger = {}
  /\ stats = [u \in Users |-> [total_pulses |-> 0, total_ai_enhancements |-> 0]]
  /\ deliveries = <<0>>
  /\ debits = <<0>>
  /\ ex = [e \in Execs |-> IdleExec]
  /\ stopCalls = {}
  /\ usedIds = {1}
  /\ today = 1
  /\ config = [enabled |-> TRUE, bedrock_model_id |-> "us.amazon.nova-lite-v1:0",
               max_cost_cents |-> 2]
  /\ faults = 0

WorthinessSpec == InitWorthiness /\ [][NextPipe]_vars

\* two sessions of one user, the second started when the first stopped, going
\* through the pipeline with AI disabled, and the listing of the archive
ListingStops == {300200, 300700, 301200}

InitListing ==
  /\ \E at1 \in ListingStops, at2 \in ListingStops :
       /\ at1 < at2
       /\ LET first == StoppedItem("u1", StartedItem("u1", 1, "short"), "short", at1)
              second == StoppedItem("u1", [StartedItem("u1", 2, "short")
                                             EXCEPT !.start_time = at1], "short", at2)
          IN /\ stopped = {first, second}
             /\ stream = <<StreamRecord("INSERT", first), StreamRecord("INSERT", second)>>
  /\ api = [op |-> "stop", caller |-> "u1", user |-> "u1", status |-> "ok"]
  /\ started = {}
  /\ archived = {}
  /\ usage = {}
  /\ ledger = {}
  /\ stats = [u \in Users |-> [total_pulses |-> 0, total_ai_enhancements |-> 0]]
  /\ deliveries = <<0, 0>>
  /\ debits = <<0, 0>>
  /\ ex = [e \in Execs |-> IdleExec]
  /\ stopCalls = {}
  /\ usedIds = {1, 2}
  /\ today = 1
  /\ config = [enabled |-> FALSE, bedrock_model_id |-> "us.amazon.nova-lite-v1:0",
               max_cost_cents |-> 2]
  /\ faults = 0

NextListing ==
  \/ \E e \in Execs, r \in PulseIds : Deliver(e, r)
  \/ \E e \in Execs : SelGet(e)
  \/ \E e \in Execs : Standard(e)
  \/ \E e \in Execs, f \in BOOLEAN : IngestPut(e, f)
  \/ \E e \in Execs, f \in BOOLEAN : IngestDel(e, f)
  \/ \E e \in Execs, f \in BOOLEAN : IngestStats(e, f)
  \/ \E e \in Execs : Crash(e)
  \/ ListPulses("u1", "u1")

ListingSpec == InitListing /\ [][NextListing]_vars

\* the pipeline under a per-pulse cost limit that every estimate exceeds (0)
\* or none does (2)
CostLimits == {0, 2}

InitLimit ==
  /\ \E prof \in Profiles :
       LET item == OnTime("u1", 1, prof)
       IN /\ stopped = {item}
          /\ stream = <<StreamRecord("INSERT", item)>>
          /\ api = [op |-> "stop", caller |-> "u1", user |-> "u1", status |-> "ok"]
  /\ started = {}
  /\ archived = {}
  /\ usage = {}
  /\ ledger = {}
  /\ stats = [u \in Users |-> [total_pulses |-> 0, total_ai_enhancements |-> 0]]
  /\ deliveries = <<0>>
  /\ debits = <<0>>
  /\ ex = [e \in Execs |-> IdleExec]
  /\ stopCalls = {}
  /\ usedIds = {1}
  /\ today = 1
  /\ \E cap \in CostLimits :
       config = [enabled |-> TRUE, bedrock_model_id |-> "us.amazon.nova-lite-v1:0",
                 max_cost_cents |-> cap]
  /\ faults = 0

LimitSpec == InitLimit /\ [][NextPipe]_vars

(* ------------------------------ properties ----------------------------- *)
\* C1: a start call made while the user has a StartedPulse fails with
\* AlreadyStarted and leaves the stored pulse as it was, and no user ever has
\* more than one StartedPulse
C1_SingleLiveStart ==
  [][\A u \in Users :
       /\ Cardinality(ItemsByUser(started', u)) <= 1
       /\ \A prof \in Profiles, b \in {0} \cup PulseIds :
            (ItemsByUser(started, u) # {} /\ StartPulse(u, u, prof, b))
              => /\ api'.status = "AlreadyStarted"
                 /\ ItemsByUser(started', u) = ItemsByUser(started, u)]_vars

C1_Witness ==
  /\ api.op = "start"
  /\ api.status = "AlreadyStarted"
  /\ Cardinality(ItemsByUser(started, api.user)) = 1

\* C2: however often a stream record is delivered, there is never more than
\* one ArchivedPulse with its pulse_id, and there is exactly one as soon as the
\* conditional insert of some delivery has been answered
C2_ExactlyOneArchived ==
  \A r \in 1..Len(stream) :
    /\ Cardinality(ItemsByPulse(archived, stream[r].pulse_id)) <= 1
    /\ (\E e \in Execs : ex[e].rec = r /\ ex[e].put \in {"Inserted", "Conflict"})
         => Cardinality(ItemsByPulse(archived, stream[r].pulse_id)) = 1

\* two overlapping deliveries: one is past its insert, the other got Conflict
C2_Witness ==
  \E e, f \in Execs :
    /\ ex[e].rec = ex[f].rec
    /\ ex[e].pc = "ingest_del" /\ ex[e].put = "Inserted"
    /\ ex[f].put = "Conflict"
    /\ Cardinality(ItemsByPulse(archived, Pulse(e).pulse_id)) = 1

\* C3: across all deliveries of a stream record, the usage counters are
\* debited at most once for its pulse
C3_DebitAtMostOnce ==
  \A r \in 1..Len(debits) : debits[r] <= 1

\* C4: every StoppedPulse eventually reaches, and then stays in, the terminal
\* state: its ArchivedPulse exists and the StoppedPulse is gone
C4_TerminalConvergence ==
  \A p \in PulseIds :
    (ItemsByPulse(stopped, p) # {})
      ~> [](ItemsByPulse(archived, p) # {} /\ ItemsByPulse(stopped, p) = {})

\* C5: a delivery whose conditional insert was answered with Conflict has
\* deleted the StoppedPulse and has not reported failure
C5_ConflictProceeds ==
  \A e \in Execs :
    (ex[e].pc = "idle" /\ ex[e].put = "Conflict")
      => /\ ex[e].result # "failed"
         /\ ItemsByPulse(stopped, stream[ex[e].rec].pulse_id) = {}

\* C6: every cost commit adds to what is stored at that moment: the stored
\* daily and monthly cost grow by the committed cost and total_ai_enhancements
\* by one, whatever other commit ran since this one read the record
C6_NoLostUpdate ==
  [][\A e \in Execs :
       (ex[e].pc = "rec_update" /\ RecUpdate(e, FALSE)
        /\ UsageFor(Pulse(e).user_id, ex[e].day) # {})
         => LET old == CHOOSE i \in UsageFor(Pulse(e).user_id, ex[e].day) : TRUE
                new == CHOOSE i \in usage' :
                         i.user_id = old.user_id /\ i.date = old.date
            IN /\ new.daily_cost_cents = old.daily_cost_cents + ex[e].cost
               /\ new.monthly_cost_cents = old.monthly_cost_cents + ex[e].cost
               /\ new.total_ai_enhancements = old.total_ai_enhancements + 1]_vars

RECURSIVE SumCost(_)
SumCost(events) ==
  IF events = {} THEN 0
  ELSE LET ev == CHOOSE x \in events : TRUE
       IN ev.cost + SumCost(events \ {ev})

CompletedIn(u, month) ==
  {ev \in ledger : /\ ev.event_type = "enhancement_completed"
                   /\ ev.user_id = u
                   /\ Month(ev.date) = month}

\* C7: whenever no execution is in flight and nothing has failed, the actual
\* costs of a user's EnhancementCompleted events of the month add up to the
\* monthly_cost_cents of the user's usage record
C7_LedgerMatchesMonthly ==
  (faults = 0 /\ \A e \in Execs : ex[e].pc = "idle")
    => \A u \in Users :
         SumCost(CompletedIn(u, Month(today)))
           = (IF UsageFor(u, today) = {} THEN 0
              ELSE (CHOOSE i \in UsageFor(u, today) : TRUE).monthly_cost_cents)

CostCounters ==
  {[user_id |-> i.user_id, date |-> i.date, daily |-> i.daily_cost_cents,
    monthly |-> i.monthly_cost_cents] : i \in usage}

\* C8: no step of an execution whose LLM path has failed changes
\* daily_cost_cents or monthly_cost_cents
C8_NoDebitOnFailure ==
  [][\A e \in Execs :
       (ex[e].llm \in {"fallback", "raised", "refused", "disabled"} /\ Step(e))
         => CostCounters' = CostCounters]_vars

\* C9: a pulse has been debited only once its ArchivedPulse is stored and its
\* StoppedPulse deleted
C9_DebitLast ==
  \A r \in 1..Len(debits) :
    debits[r] >= 1
      => /\ ItemsByPulse(archived, stream[r].pulse_id) # {}
         /\ ItemsByPulse(stopped, stream[r].pulse_id) = {}

\* C10: the ArchivedPulse stored by an execution whose LLM enricher failed
\* has the rule-generated title, ai_enhanced = false and the failure as its
\* recorded reason
C10_DemotedArchive ==
  \A e \in Execs :
    (ex[e].pc = "ingest_del" /\ ex[e].llm \in {"fallback", "raised", "refused"})
      => \A a \in ItemsByPulse(archived, Pulse(e).pulse_id) :
           /\ a.gen_title = "rule"
           /\ a.ai_enhanced = FALSE
           /\ a.decision_reason = ex[e].llm

RECURSIVE SumDaily(_)
SumDaily(records) ==
  IF records = {} THEN 0
  ELSE LET r == CHOOSE x \in records : TRUE
       IN r.daily_cost_cents + SumDaily(records \ {r})

\* C11: the monthly figure of a user's record for today, which admission
\* compares with the monthly cap, is the total cost debited to the user on all
\* days of the current month
C11_MonthlyIsMonthTotal ==
  \A u \in Users :
    \A r \in UsageFor(u, today) :
      r.monthly_cost_cents
        = SumDaily({i \in usage : i.user_id = u /\ Month(i.date) = Month(today)})

\* the stored record admission looks at (a new one if there is none yet)
StoredNow(u) ==
  IF UsageFor(u, today) = {} THEN NewUsageRecord(u, today)
  ELSE CHOOSE i \in UsageFor(u, today) : TRUE

\* C12: a pulse is accepted for LLM enrichment only if, for the user's stored
\* usage record at the time of the decision, monthly cost + estimate is within
\* the monthly cap and daily cost + estimate within the base plus credits
C12_AdmittedWithinBudget ==
  [][\A e \in Execs, d \in Draws :
       (SelDecide(e, d) /\ ex'[e].aiWorthy)
         => LET u    == StoredNow(Pulse(e).user_id)
                est  == EstimateEnhancementCost(Pulse(e).profile, config.max_cost_cents)
                tier == BUDGET_TIERS[u.user_tier]
            IN /\ u.monthly_cost_cents + est <= tier.monthly_cap_cents * CentScale
               /\ u.daily_cost_cents + est
                    <= (tier.daily_base_cents + u.daily_ai_credits) * CentScale]_vars

\* C13: the budget check of a decision rejected for budget reasons (load or
\* create the usage record, then compare) leaves every counter of the user's
\* record at a value no lower than before
C13_RejectionKeepsCounters ==
  [][\A e \in Execs :
       (SelDecide(e, 0) /\ ex'[e].reason = "budget")
         => \A r \in UsageFor(Pulse(e).user_id, today) :
              \E r2 \in usage' :
                /\ r2.user_id = r.user_id /\ r2.date = r.date
                /\ r2.daily_cost_cents >= r.daily_cost_cents
                /\ r2.monthly_cost_cents >= r.monthly_cost_cents
                /\ r2.daily_ai_credits >= r.daily_ai_credits
                /\ r2.daily_pulses_enhanced >= r.daily_pulses_enhanced
                /\ r2.total_ai_enhancements >= r.total_ai_enhancements]_vars

C13_Witness ==
  \E e \in Execs :
    /\ ex[e].reason = "budget"
    /\ ex[e].pc = AfterSelection(FALSE)
    /\ \E r \in UsageFor("u1", today) :
         r.monthly_cost_cents >= BUDGET_TIERS["free"].monthly_cap_cents * CentScale

\* C14: every StoppedPulse created by stop has an actual duration between 0 and
\* its planned duration_seconds, whatever stopped_at the caller sent
C14_DurationWithinPlan ==
  \A it \in stopped :
    /\ 0 <= ActualDurationSeconds(it)
    /\ ActualDurationSeconds(it) <= DurationSeconds(it.profile)

\* C15: whenever a call creates or deletes a StartedPulse or lists an archive,
\* the user whose data it acts on is the authenticated caller
C15_OwnDataOnly ==
  [][(started' # started \/ api'.op = "list") => api'.user = api'.caller]_vars

\* C16: a stop call for a user without a StartedPulse answers NotStarted without
\* raising and leaves every table as it was
C16_StopWithoutStart ==
  [][\A who \in Users, u \in Users, refl \in Profiles, at \in StoppedAts :
       (ItemsByUser(started, u) = {} /\ StopDelete(who, u, refl, at))
         => /\ api'.status = "NotStarted"
            /\ UNCHANGED <<started, stopped, archived, usage, ledger, stats>>]_vars

\* C17: while one stop call of a user holds the deleted StartedPulse, a second
\* stop call of the same user obtains nothing and answers NotStarted, and no
\* pulse_id ever has more than one StoppedPulse
C17_ConcurrentStops ==
  [][/\ \A it \in stopped' : Cardinality(ItemsByPulse(stopped', it.pulse_id)) = 1
     /\ \A who \in Users, u \in Users, refl \in Profiles, at \in StoppedAts :
          (/\ \E c \in stopCalls : c.deleted.user_id = u
           /\ ItemsByUser(started, u) = {}
           /\ StopDelete(who, u, refl, at))
            => /\ stopCalls' = stopCalls
               /\ api'.status = "NotStarted"]_vars

\* C18: when the insert of the StoppedPulse fails after the StartedPulse was
\* deleted, the caller gets an error and the stopped table is left as it was:
\* nothing of the pulse has been written
C18_FailedInsertSurfaces ==
  [][\A c \in stopCalls, fail \in BOOLEAN :
       (StopInsert(c, fail) /\ (fail \/ ~CondNotExistsByPulse(stopped, c.pulse)))
         => /\ api'.op = "stop"
            /\ api'.status = "StopFailed"
            /\ stopped' = stopped
            /\ stream' = stream]_vars

\* the insert failed: the caller has the error, the pulse is in neither table
C18_Witness ==
  /\ api.op = "stop"
  /\ api.status = "StopFailed"
  /\ faults = 1
  /\ usedIds = {1}
  /\ started = {}
  /\ ItemsByPulse(stopped, 1) = {}

\* C19: a stop that finds the user's StartedPulse removes it, and when the stop
\* succeeds exactly one StoppedPulse has its pulse_id: it carries the pulse_id,
\* user_id, intent, start_time and duration_seconds of the deleted StartedPulse
\* and the reflection sent with the stop
C19_StopMovesPulse ==
  [][/\ \A who \in Users, u \in Users, refl \in Profiles, at \in StoppedAts :
          (ItemsByUser(started, u) # {} /\ StopDelete(who, u, refl, at))
            => /\ ItemsByUser(started', u) = {}
               /\ \A it \in ItemsByUser(started, u) :
                    \E c \in stopCalls' :
                      /\ c.deleted = it
                      /\ c.pulse.pulse_id = it.pulse_id
                      /\ c.pulse.user_id = it.user_id
                      /\ c.pulse.profile = it.profile
                      /\ c.pulse.start_time = it.start_time
                      /\ c.pulse.reflection = refl
     /\ \A c \in stopCalls :
          (StopInsert(c, FALSE) /\ api'.status = "ok")
            => ItemsByPulse(stopped', c.pulse.pulse_id) = {c.pulse}]_vars

\* a successful stop with a reflection longer than the intent
C19_Witness ==
  /\ api.op = "stop"
  /\ api.status = "ok"
  /\ ItemsByUser(started, Owner) = {}
  /\ \E it \in stopped :
       /\ it.user_id = Owner
       /\ it.profile = "short"
       /\ it.reflection = "rich"
       /\ it.start_time # it.stopped_at

\* a record the pipeline has to skip
Skippable(record) == record.event_name # "INSERT" \/ record.pulse_id = 0

\* C20: no step of an execution handed a record that is not an INSERT, or whose
\* image has no pulse_id, writes an ArchivedPulse, deletes a StoppedPulse, adds a
\* usage event or changes a budget counter
C20_SkippedRecord ==
  [][\A e \in Execs :
       (ex[e].pc # "idle" /\ Skippable(Pulse(e)) /\ ex'[e] # ex[e])
         => /\ archived' = archived
            /\ stopped' = stopped
            /\ ledger' = ledger
            /\ \A i \in usage' : i \in usage \/ i = NewUsageRecord(i.user_id, i.date)]_vars

\* C21: once ai_selection has returned for a delivery of an INSERT record, the
\* ledger holds exactly one selection_evaluated event of that delivery,
\* whatever the decision was
C21_OneSelectionEvent ==
  \A e \in Execs :
    (ex[e].pc \notin {"idle", "sel_get", "sel_create", "sel_decide"} /\ HasPulseData(e))
      => Cardinality({ev \in ledger : /\ ev.event_type = "selection_evaluated"
                                      /\ ev.event_id = EventId(e)}) = 1

\* C22: an execution whose insert of the ArchivedPulse met a storage error
\* (not the conflict on pulse_id) ends by raising; it never ends with a return
\* value, be it {"success": False} ("failed") or a success
C22_StorageErrorRaises ==
  \A e \in Execs :
    (ex[e].pc = "idle" /\ ex[e].put = "Error") => ex[e].result = "raised"

\* C23: every ArchivedPulse has the intent, reflection, user_id, pulse_id,
\* start_time and stopped_at of the StoppedPulse whose INSERT record it was
\* built from, on the LLM path and on the rule path
C23_ArchiveRoundTrip ==
  \A a \in archived :
    \E r \in 1..Len(stream) :
      /\ stream[r].event_name = "INSERT"
      /\ stream[r].pulse_id = a.pulse_id
      /\ stream[r].user_id = a.user_id
      /\ stream[r].profile = a.profile
      /\ stream[r].reflection = a.reflection
      /\ stream[r].start_time = a.start_time
      /\ stream[r].stopped_at = a.stopped_at

\* a pulse archived on the LLM path
C23_Witness ==
  \E a \in archived :
    /\ a.ai_enhanced
    /\ a.gen_title # "rule"
    /\ a.stopped_at = Seconds(DurationSeconds("rich"))

\* C24: with AI enabled and the budget check passed, a decision on a score of
\* at least EXCEPTIONAL_THRESHOLD accepts the pulse, and would accept it for
\* every value a random draw could take
C24_ExceptionalAccepted ==
  [][\A e \in Execs, d \in Draws :
       (/\ SelDecide(e, d)
        /\ config.enabled
        /\ HasPulseData(e)
        /\ CanAfford(UsageNow(Pulse(e).user_id),
                     EstimateEnhancementCost(Pulse(e).profile, config.max_cost_cents))
        /\ ex[e].score >= EXCEPTIONAL_THRESHOLD)
         => /\ ex'[e].aiWorthy
            /\ ex'[e].reason = "exceptional"
            /\ ex'[e].pc = AfterSelection(TRUE)
            /\ \A any \in 0..999 : Decide(ex[e].score, any)]_vars

\* a score exactly at the threshold has been accepted
C24_Witness ==
  \E e \in Execs :
    /\ ex[e].score = EXCEPTIONAL_THRESHOLD
    /\ ex[e].aiWorthy
    /\ ex[e].reason = "exceptional"
    /\ ex[e].pc = AfterSelection(TRUE)

\* the number of draws, out of a thousand, on which a score is accepted
AcceptanceChance(score) == Cardinality({d \in 0..999 : Decide(score, d)})

\* C25: two decisions taken on the same budget state: when the one with the
\* lower score is accepted on a draw, the one with the higher score is accepted
\* on that draw too, and its chance of acceptance is at least as large
C25_AdmissionMonotone ==
  [][\A e \in Execs, f \in Execs, d \in Draws :
       (/\ SelDecide(f, d)
        /\ ex[e].pc = "sel_decide"
        /\ HasPulseData(e) /\ HasPulseData(f)
        /\ Pulse(e).user_id = Pulse(f).user_id
        /\ Pulse(e).profile = Pulse(f).profile
        /\ ex[e].score >= ex[f].score
        /\ ex'[f].aiWorthy)
         => /\ Decide(ex[e].score, d)
            /\ AcceptanceChance(ex[e].score) >= AcceptanceChance(ex[f].score)]_vars

\* a score of the probabilistic band and a higher one of the same band were
\* both accepted while the budget stood unchanged
C25_Witness ==
  /\ usage = {NewUsageRecord("u1", 1)}
  /\ \E e \in Execs, f \in Execs :
       /\ ex[f].score = 500 /\ ex[f].aiWorthy
       /\ ex[e].score = 600 /\ ex[e].aiWorthy

\* C26: every worthiness score computed for a pulse lies between 0 and 1
\* (0 and 1000 thousandths), whatever the pulse's texts and times
C26_ScoreInUnitInterval ==
  \A e \in Execs :
    ex[e].pc \notin {"idle", "sel_get", "sel_create"}
      => (0 <= ex[e].score /\ ex[e].score <= 1000)

\* C27: in every result of the listing query, a pulse of the user that was
\* stopped later than another one comes before it
C27_MostRecentFirst ==
  \A u \in Users :
    \A l \in GetIngestedPulses(u) :
      \A i \in 1..Len(l), j \in 1..Len(l) :
        l[i].stopped_at > l[j].stopped_at => i < j

\* C28: the archived record of a pulse that was rejected for budget reasons
\* says could_be_enhanced = true in its decision trace
C28_BudgetRejectionExplained ==
  \A a \in archived :
    a.decision_reason = "budget" => a.could_be_enhanced

\* C29: for a pulse whose estimated enrichment cost exceeds the configured
\* limit, no execution reaches the LLM calls or the budget commit, no
\* enhancement is tracked and nothing is debited
C29_OverLimitRefused ==
  /\ \A e \in Execs :
       (/\ ex[e].rec # 0
        /\ HasPulseData(e)
        /\ EstimateBedrockCost(Pulse(e).profile, config.bedrock_model_id)
             > config.max_cost_cents * CentScale)
         => /\ ex[e].pc \notin {"llm", "rec_get", "rec_create", "rec_update"}
            /\ ex[e].llm \in {"none", "refused"}
            /\ ~ex[e].enhanced
            /\ ex[e].cost = 0
  /\ \A r \in 1..Len(stream) :
       (/\ stream[r].event_name = "INSERT"
        /\ EstimateBedrockCost(stream[r].profile, config.bedrock_model_id)
             > config.max_cost_cents * CentScale)
         => /\ debits[r] = 0
            /\ \A i \in usage : i.user_id = stream[r].user_id => i.daily_cost_cents = 0
            /\ \A a \in ItemsByPulse(archived, stream[r].pulse_id) : ~a.ai_enhanced
            /\ \A v \in ledger :
                 v.pulse_id = stream[r].pulse_id
                   => v.event_type \notin {"enhancement_request", "enhancement_completed"}

\* an accepted pulse was refused by the enricher for its cost and archived
\* on the rule path
C29_Witness ==
  /\ \E e \in Execs :
       /\ ex[e].llm = "refused"
       /\ EstimateBedrockCost(Pulse(e).profile, config.bedrock_model_id)
            > config.max_cost_cents * CentScale
  /\ \E a \in archived : ~a.ai_enhanced

\* the number of enhancements committed for a user on the first n records
RECURSIVE Commits(_, _)
Commits(u, n) ==
  IF n = 0 THEN 0
  ELSE (IF stream[n].user_id = u THEN debits[n] ELSE 0) + Commits(u, n - 1)

\* C30: the total_ai_enhancements of a user's usage record for today is the
\* number of enhancements committed for the user on all days so far
C30_TotalIsHistory ==
  \A u \in Users :
    \A r \in UsageFor(u, today) :
      r.total_ai_enhancements = Commits(u, Len(stream))

\* C31: the decision that accepts a pulse and pre-computes its rewards leaves
\* every stored usage record as it was (a record it creates is a new one);
\* daily_ai_credits rises only in the step that commits an enhancement, which
\* adds the credits of the rewards to the value it read
C31_RewardsOnlyOnCommit ==
  [][/\ \A e \in Execs, d \in Draws :
          (SelDecide(e, d) /\ ex'[e].aiWorthy)
            => /\ ex'[e].rewards = RewardCredits(ex'[e].usage, Pulse(e).profile)
               /\ \A i \in usage : i \in usage'
               /\ \A j \in usage' \ usage : j = NewUsageRecord(Pulse(e).user_id, today)
     /\ \A e \in Execs :
          RecUpdate(e, FALSE)
            => \A j \in UsageFor(Pulse(e).user_id, ex[e].day)' :
                 j.daily_ai_credits
                   = ex[e].usage.daily_ai_credits
                       + RewardCredits(ex[e].usage, Pulse(e).profile)
     /\ \A i \in usage, j \in usage' :
          (i.user_id = j.user_id /\ i.date = j.date
             /\ j.daily_ai_credits > i.daily_ai_credits)
            => \E e \in Execs : RecUpdate(e, FALSE)]_vars

\* a pulse has been accepted with rewards pre-computed and the user's record
\* still has the counters of a new record
C31_Witness ==
  \E e \in Execs :
    /\ ex[e].pc = "bedrock"
    /\ ex[e].aiWorthy
    /\ ex[e].rewards > 0
    /\ UsageFor(Pulse(e).user_id, today) = {NewUsageRecord(Pulse(e).user_id, today)}

\* C32: the pulse_id of a newly stored StartedPulse is none that a started,
\* stopped or archived pulse has had before, whatever the request body says
C32_FreshPulseId ==
  [][\A it \in started' \ started :
       /\ it.pulse_id \notin usedIds
       /\ \A old \in started \cup stopped \cup archived : old.pulse_id # it.pulse_id]_vars

\* C33: when the user-stats update fails after the archive insert, the
\* delivery is reported successful, the ArchivedPulse stays stored and the
\* stopped table is left as the delete left it
C33_StatsFailureIsolated ==
  [][\A e \in Execs :
       IngestStats(e, TRUE)
         => /\ ex'[e].result = "success"
            /\ ItemsByPulse(archived, Pulse(e).pulse_id) # {}
            /\ archived' = archived
            /\ stopped' = stopped
            /\ stats' = stats]_vars

\* a delivery reported successful although no pulse was counted in the stats:
\* the pulse is archived and no longer in the stopped table
C33_Witness ==
  \E e \in Execs :
    /\ ex[e].result = "success"
    /\ stats[Pulse(e).user_id].total_pulses = 0
    /\ ItemsByPulse(archived, Pulse(e).pulse_id) # {}
    /\ ItemsByPulse(stopped, Pulse(e).pulse_id) = {}

\* C34: whenever a step of the pipeline removes a pulse from the stopped
\* table, an ArchivedPulse with the same pulse_id is in the archive at that
\* moment
C34_DeleteOnlyArchived ==
  [][\A p \in stopped \ stopped' :
       ItemsByPulse(archived, p.pulse_id) # {}]_vars

\* a stopped pulse has been deleted by an execution that archived it
C34_Witness ==
  \E e \in Execs :
    /\ ex[e].pc = "ingest_stats"
    /\ ItemsByPulse(stopped, Pulse(e).pulse_id) = {}
    /\ ItemsByPulse(archived, Pulse(e).pulse_id) # {}

\* a usage record whose costs are within the plan's daily and monthly budget
WithinBudget(i) ==
  /\ i.monthly_cost_cents <= BUDGET_TIERS[i.user_tier].monthly_cap_cents * CentScale
  /\ i.daily_cost_cents
       <= (BUDGET_TIERS[i.user_tier].daily_base_cents + i.daily_ai_credits) * CentScale

\* C35: when an execution commits its cost while another execution for the
\* same user has been admitted and is still running, the user's record stays
\* within the daily and the monthly budget
C35_OverlapWithinBudget ==
  [][\A e \in Execs, f \in Execs :
       (/\ e # f
        /\ RecUpdate(e, FALSE)
        /\ ex[f].aiWorthy
        /\ ex[f].pc \in {"bedrock", "llm", "rec_get", "rec_create", "rec_update"}
        /\ Pulse(f).user_id = Pulse(e).user_id)
         => \A j \in UsageFor(Pulse(e).user_id, ex[e].day)' : WithinBudget(j)]_vars

\* C36: the step that writes a new usage record for a user's day leaves a
\* record that is already stored for that user and day, with the costs
\* committed to it, as it is
C36_CreateKeepsRecord ==
  [][\A e \in Execs :
       (SelCreate(e) \/ RecCreate(e))
         => \A i \in UsageFor(Pulse(e).user_id, ex[e].day) : i \in usage']_vars

\* C37: when a stop call that took a StartedPulse ends, whether its insert
\* succeeded or failed, the session is in the started table or its
\* StoppedPulse is in the stopped table
C37_StopKeepsSession ==
  [][\A c \in stopCalls, f \in BOOLEAN :
       StopInsert(c, f) => (c.deleted \in started' \/ c.pulse \in stopped')]_vars

\* C38: the first_ai_enhancement reward is granted at most once to a user:
\* at most one of the user's daily records carries its achievement,
\* ai_apprentice, and its credits
C38_FirstRewardOnce ==
  \A u \in Users :
    Cardinality({i \in usage : i.user_id = u /\ "ai_apprentice" \in i.achievements}) <= 1

\* C39: an ArchivedPulse, once stored, keeps every field through all later
\* deliveries and retries for its pulse_id
C39_FirstArchiveWins ==
  [][\A a \in archived : a \in archived']_vars

\* a later delivery tried to archive a pulse that was archived already
C39_Witness ==
  \E e \in Execs :
    /\ ex[e].put = "Conflict"
    /\ ex[e].result = "failed"
    /\ ItemsByPulse(archived, Pulse(e).pulse_id) # {}

\* the terminal usage events written for an event_id
TerminalEvents(id) ==
  {v \in ledger : /\ v.event_id = id
                  /\ v.event_type \in {"enhancement_completed", "enhancement_failed"}}

\* C40: every enhancement_request usage event is eventually followed by
\* exactly one enhancement_completed or enhancement_failed event with the
\* same event_id
C40_RequestReachesTerminal ==
  \A r \in PulseIds, n \in 1..MaxDeliveries :
    (\E v \in ledger : v.event_type = "enhancement_request" /\ v.event_id = <<r, n>>)
      ~> (Cardinality(TerminalEvents(<<r, n>>)) = 1)

====
